---- MODULE Spec2Model ----
(***************************************************************************)
(* Model of main.py: a console address book over one MongoDB collection.   *)
(* Text is a sequence of one-character strings, so that str.lower(),       *)
(* str.strip() and int() are computed rather than assumed.  A document is  *)
(* a function from its keys (texts) to its values.  One action is the code *)
(* that runs from one input() call to the next.                            *)
(***************************************************************************)
EXTENDS Integers, Sequences, FiniteSets, TLC

VARIABLES
    db_contacts,  \* the collection: a set of documents
    pc,           \* the input() call the program is blocked on
    opt,          \* main(): the option last selected
    _id, name, age, phone, email,  \* locals of create_contact / name of the lookups
    contact,      \* result of find_one: {} for None, {doc} otherwise
    field, value, \* locals of update()
    printed,      \* the set of messages printed since the last menu prompt
    shown,        \* documents printed by print_contact since the last menu prompt
    calls,        \* calls made to the collection since the last menu prompt
    typed,        \* the name as typed at the last lookup prompt, before any lower()
    pre,          \* the collection as it was at the last menu prompt
    entered,      \* the five values of the last create flow, texts as typed
    inserted,     \* TRUE while the last operation other than a search was a successful insert
    removed,      \* {doc} while the last operation other than a search deleted doc
    answer,       \* the text typed at the last confirmation prompt of delete()
    live          \* the ids inserted and not deleted since

vars == <<db_contacts, pc, opt, _id, name, age, phone, email, contact, field, value,
          printed, shown, calls, typed, pre, entered, inserted, removed, answer, live>>

----------------------------------------------------------------------------
(* Bounds of the model *)

MaxId == 2        \* the ids typed are 1..MaxId

----------------------------------------------------------------------------
(* Keys and options *)

ID_KEY == <<"_", "i", "d">>
NAME_KEY == <<"n", "a", "m", "e">>
AGE_KEY == <<"a", "g", "e">>
PHONE_KEY == <<"p", "h", "o", "n", "e">>
EMAIL_KEY == <<"e", "m", "a", "i", "l">>

EXIT_OPT == 0
CREATE_OPT == 1
SEARCH_OPT == 2
SHOW_ALL_OPT == 3
UPDATE_OPT == 4
DELETE_OPT == 5

----------------------------------------------------------------------------
(* str.lower(), str.strip(), int() *)

LowerChar(c) ==
    CASE c = "A" -> "a" [] c = "B" -> "b" [] c = "C" -> "c" [] c = "D" -> "d"
      [] c = "E" -> "e" [] c = "F" -> "f" [] c = "G" -> "g" [] c = "H" -> "h"
      [] c = "I" -> "i" [] c = "J" -> "j" [] c = "K" -> "k" [] c = "L" -> "l"
      [] c = "M" -> "m" [] c = "N" -> "n" [] c = "O" -> "o" [] c = "P" -> "p"
      [] c = "Q" -> "q" [] c = "R" -> "r" [] c = "S" -> "s" [] c = "T" -> "t"
      [] c = "U" -> "u" [] c = "V" -> "v" [] c = "W" -> "w" [] c = "X" -> "x"
      [] c = "Y" -> "y" [] c = "Z" -> "z" [] OTHER -> c

lower(s) == [i \in 1..Len(s) |-> LowerChar(s[i])]

RECURSIVE lstrip(_)
lstrip(s) == IF s # <<>> /\ Head(s) = " " THEN lstrip(Tail(s)) ELSE s

RECURSIVE rstrip(_)
rstrip(s) == IF s # <<>> /\ s[Len(s)] = " " THEN rstrip(SubSeq(s, 1, Len(s) - 1)) ELSE s

strip(s) == rstrip(lstrip(s))

DigitChars == <<"0", "1", "2", "3", "4", "5", "6", "7", "8", "9">>

IsDigit(c) == \E i \in 1..10 : DigitChars[i] = c

DigitVal(c) == (CHOOSE i \in 1..10 : DigitChars[i] = c) - 1

\* The text of int(s) once blanks around it and a leading sign are removed.
IntBody(s) ==
    LET t == strip(s)
    IN IF t # <<>> /\ Head(t) \in {"+", "-"} THEN Tail(t) ELSE t

\* int(s) does not raise ValueError: digits, single underscores between them allowed.
IsInt(s) ==
    LET b == IntBody(s)
    IN /\ b # <<>>
       /\ IsDigit(b[1]) /\ IsDigit(b[Len(b)])
       /\ \A i \in 1..Len(b) : IsDigit(b[i]) \/ b[i] = "_"
       /\ \A i \in 1..(Len(b) - 1) : ~(b[i] = "_" /\ b[i + 1] = "_")

RECURSIVE DigitsValue(_, _)
DigitsValue(b, acc) ==
    IF b = <<>> THEN acc
    ELSE IF Head(b) = "_" THEN DigitsValue(Tail(b), acc)
    ELSE DigitsValue(Tail(b), 10 * acc + DigitVal(Head(b)))

int(s) ==
    LET t == strip(s)
        v == DigitsValue(IntBody(s), 0)
    IN IF t # <<>> /\ Head(t) = "-" THEN 0 - v ELSE v

----------------------------------------------------------------------------
(* What the user may type at each prompt *)

RECURSIVE ToText(_)
ToText(n) == IF n < 10 THEN <<DigitChars[n + 1]>>
             ELSE Append(ToText(n \div 10), DigitChars[(n % 10) + 1])

MenuInputs == {ToText(i) : i \in EXIT_OPT..DELETE_OPT} \cup {<<"9">>, <<"x">>}
IdInputs == {ToText(i) : i \in 1..MaxId} \cup {<<"x">>}
NameInputs == {<<"a">>, <<"A">>, <<"b">>}
AgeInputs == {<<"3">>, <<" ", "7">>, <<"y">>}
PhoneInputs == {<<"5", "X">>}
EmailInputs == {<<"E">>}
FieldInputs == {<<"i", "d">>, <<" ", "I", "D">>, <<"_", "i", "d">>,
                <<"n", "a", "m", "e">>, <<"A", "g", "e">>, <<"p", "h", "o", "n", "e">>,
                <<"P", "h", "o", "n", "e", " ", "n", "u", "m", "b", "e", "r">>,
                <<"e", "m", "a", "i", "l">>, <<"E", "-", "m", "a", "i", "l">>,
                <<"z", "i", "p">>}
ValueInputs == {<<"3">>, <<"7", " ">>, <<"y">>, <<"B">>}
ConfirmInputs == {<<"y">>, <<"Y", "E", "S">>, <<"n">>, <<"y", "e">>, <<>>}

----------------------------------------------------------------------------
(* Messages *)

IdNumberMsg == "ID must be a number. Please try again."
AgeNumberMsg == "Age must be a number. Please try again."
CreatedMsg == "Successfully created with id"
NotAcknowledgedMsg == "Insert not acknowledged."
DuplicateMsg == "The id already exists, please enter an unique ID."
NotFoundMsg == "Contact not found, please try again."
NoDataMsg == "No data found."
ImmutableMsg == "You can't modify the ID. (It's immutable!)"
NoFieldMsg == "Field does not exist."
UpdatedMsg == "Successfully updated."
DeletedMsg == "Contact deleted."
OptionNumberMsg == "*** The option must be a number. Please try again. ***"
InvalidOptionMsg == "*** Not a valid option. Please try again. ***"

----------------------------------------------------------------------------
(* The collection *)

Document(i, n, a, p, e) ==
    (ID_KEY :> i) @@ (NAME_KEY :> n) @@ (AGE_KEY :> a) @@ (PHONE_KEY :> p) @@ (EMAIL_KEY :> e)

\* One call to the collection: the method, the field a $set names, the outcome.
Call(op, set, result) == [op |-> op, set |-> set, result |-> result]

\* result.acknowledged is an outcome the store decides; the write concern only says
\* whether the client waited for the reply, so the write is applied either way.
Ack(ack) == IF ack THEN "acknowledged" ELSE "unacknowledged"

\* Variant: the unique index is on the name instead of the _id.
DuplicateName(coll, doc) == \E d \in coll : d[NAME_KEY] = doc[NAME_KEY]

\* insert_one raises DuplicateKeyError: _id carries the collection's unique index.
DuplicateKeyError(coll, doc) == \E d \in coll : d[ID_KEY] = doc[ID_KEY]

insert_one(coll, doc) == coll \cup {doc}

\* Variant: find_one with its filter dropped.
find_any(coll, key, val) == IF coll = {} THEN {{}} ELSE {{d} : d \in coll}

\* find_one({key: val}): the results the store may give, {} standing for None.
find_one(coll, key, val) ==
    LET matches == {d \in coll : d[key] = val}
    IN IF matches = {} THEN {{}} ELSE {{d} : d \in matches}

\* Variant: the $set applied with the filter dropped, as update_many({}, ...) does.
update_all(coll, i, f, v) == {(f :> v) @@ d : d \in coll}

\* update_one({ID_KEY: i}, {"$set": {f: v}})
update_one(coll, i, f, v) ==
    {IF d[ID_KEY] = i THEN (f :> v) @@ d ELSE d : d \in coll}

\* Variant: a delete_one whose filter matches nothing.
delete_none(coll, i) == coll

\* delete_one({ID_KEY: i})
delete_one(coll, i) == {d \in coll : d[ID_KEY] # i}

count_documents(coll) == Cardinality(coll)

\* Variant: a cursor that yields one document only.
find_first(coll) == IF coll = {} THEN {<<>>} ELSE {<<d>> : d \in coll}

\* find(): the orders in which the cursor may yield the documents.
find(coll) ==
    {s \in [1..Cardinality(coll) -> coll] : {s[i] : i \in 1..Cardinality(coll)} = coll}

----------------------------------------------------------------------------
(* update(): the pieces of the field-selection loop *)

\* Variant: the field typed compared with the key of the id, not with its name.
IsIdKey(f) == f = ID_KEY

IsIdField(f) == f = <<"i", "d">>

FieldAlias(f) ==
    IF f = <<"p", "h", "o", "n", "e", " ", "n", "u", "m", "b", "e", "r">> THEN PHONE_KEY
    ELSE IF f = <<"e", "-", "m", "a", "i", "l">> THEN EMAIL_KEY
    ELSE f

UpdatableFields == {NAME_KEY, AGE_KEY, PHONE_KEY, EMAIL_KEY}

\* The fields whose value is converted with int(), after which the value loop breaks.
IntFields == {AGE_KEY}

\* Variant: an empty answer confirms too.
ConfirmAnswersOrNone == {<<"y">>, <<"y", "e", "s">>, <<>>}

\* The answers that confirm a deletion.
ConfirmAnswers == {<<"y">>, <<"y", "e", "s">>}

----------------------------------------------------------------------------
(* State *)

NoEntry == [id |-> 0, name |-> <<>>, age |-> 0, phone |-> <<>>, email |-> <<>>]

Init ==
    /\ db_contacts = {}
    /\ pc = "menu"
    /\ opt = EXIT_OPT
    /\ _id = 0 /\ name = <<>> /\ age = 0 /\ phone = <<>> /\ email = <<>>
    /\ contact = {}
    /\ field = <<>> /\ value = <<>>
    /\ printed = {} /\ shown = <<>> /\ calls = <<>>
    /\ typed = <<>>
    /\ pre = {}
    /\ entered = NoEntry /\ inserted = FALSE /\ removed = {}
    /\ answer = <<>>
    /\ live = {}

\* The document a non-empty find_one result holds.
TheContact == CHOOSE d \in contact : TRUE

Where(o) ==
    CASE o = EXIT_OPT -> "done"
      [] o = CREATE_OPT -> "create_id"
      [] o = SEARCH_OPT -> "search_name"
      [] o = SHOW_ALL_OPT -> "show_all"
      [] o = UPDATE_OPT -> "update_name"
      [] o = DELETE_OPT -> "delete_name"
      [] OTHER -> "menu"

\* main(): one turn of the menu loop, up to the first prompt of the operation chosen.
\* The locals of the operation before are gone and the record of what it did starts anew.
Menu(t) ==
    /\ pc = "menu"
    /\ _id' = 0 /\ name' = <<>> /\ age' = 0 /\ phone' = <<>> /\ email' = <<>>
    /\ contact' = {} /\ field' = <<>> /\ value' = <<>>
    /\ shown' = <<>> /\ calls' = <<>> /\ typed' = <<>>
    /\ pre' = db_contacts
    /\ answer' = <<>>
    /\ UNCHANGED <<db_contacts, live>>
    /\ IF ~IsInt(t)
       THEN /\ printed' = {OptionNumberMsg}
            /\ pc' = "menu"
            /\ UNCHANGED <<opt, entered, inserted, removed>>
       ELSE /\ opt' = int(t)
            /\ pc' = Where(int(t))
            /\ printed' = IF Where(int(t)) = "menu" THEN {InvalidOptionMsg} ELSE {}
            /\ IF int(t) \in {EXIT_OPT, CREATE_OPT, SHOW_ALL_OPT, UPDATE_OPT, DELETE_OPT}
               THEN entered' = NoEntry /\ inserted' = FALSE /\ removed' = {}
               ELSE UNCHANGED <<entered, inserted, removed>>

\* create_contact(): the id prompt
CreateId(t) ==
    /\ pc = "create_id"
    /\ IF IsInt(t)
       THEN /\ _id' = int(t)
            /\ entered' = [entered EXCEPT !.id = int(t)]
            /\ pc' = "create_name"
            /\ UNCHANGED printed
       ELSE /\ printed' = printed \cup {IdNumberMsg}
            /\ UNCHANGED <<_id, entered, pc>>
    /\ UNCHANGED <<db_contacts, opt, name, age, phone, email, contact, field, value,
                   shown, calls, typed, pre, inserted, removed, answer, live>>

\* create_contact(): the name prompt
CreateName(t) ==
    /\ pc = "create_name"
    /\ name' = lower(t)
    /\ entered' = [entered EXCEPT !.name = t]
    /\ pc' = "create_age"
    /\ UNCHANGED <<db_contacts, opt, _id, age, phone, email, contact, field, value,
                   printed, shown, calls, typed, pre, inserted, removed, answer, live>>

\* create_contact(): the age prompt
CreateAge(t) ==
    /\ pc = "create_age"
    /\ IF IsInt(t)
       THEN /\ age' = int(t)
            /\ entered' = [entered EXCEPT !.age = int(t)]
            /\ pc' = "create_phone"
            /\ UNCHANGED printed
       ELSE /\ printed' = printed \cup {AgeNumberMsg}
            /\ UNCHANGED <<age, entered, pc>>
    /\ UNCHANGED <<db_contacts, opt, _id, name, phone, email, contact, field, value,
                   shown, calls, typed, pre, inserted, removed, answer, live>>

\* create_contact(): the phone prompt
CreatePhone(t) ==
    /\ pc = "create_phone"
    /\ phone' = lower(t)
    /\ entered' = [entered EXCEPT !.phone = t]
    /\ pc' = "create_email"
    /\ UNCHANGED <<db_contacts, opt, _id, name, age, email, contact, field, value,
                   printed, shown, calls, typed, pre, inserted, removed, answer, live>>

\* create_contact(): the email prompt, insert_one and the report of its outcome
CreateEmail(t, ack) ==
    /\ pc = "create_email"
    /\ email' = lower(t)
    /\ entered' = [entered EXCEPT !.email = t]
    /\ LET doc == Document(_id, name, age, phone, lower(t))
       IN IF DuplicateKeyError(db_contacts, doc)
          THEN /\ calls' = Append(calls, Call("insert_one", <<>>, "DuplicateKeyError"))
               /\ printed' = printed \cup {DuplicateMsg}
               /\ inserted' = FALSE
               /\ UNCHANGED <<db_contacts, live>>
          ELSE /\ db_contacts' = insert_one(db_contacts, doc)
               /\ calls' = Append(calls, Call("insert_one", <<>>, Ack(ack)))
               /\ printed' = printed \cup {IF ack THEN CreatedMsg ELSE NotAcknowledgedMsg}
               /\ inserted' = TRUE
               /\ live' = live \cup {_id}
    /\ pc' = "menu"
    /\ UNCHANGED <<opt, _id, name, age, phone, contact, field, value,
                   shown, typed, pre, removed, answer>>

\* search_one()
SearchOne(t) ==
    /\ pc = "search_name"
    /\ name' = lower(t)
    /\ typed' = t
    /\ \E c \in find_one(db_contacts, NAME_KEY, lower(t)) :
          /\ contact' = c
          /\ shown' = IF c # {} THEN <<CHOOSE d \in c : TRUE>> ELSE <<>>
          /\ printed' = IF c # {} THEN {} ELSE {NotFoundMsg}
    /\ calls' = Append(calls, Call("find_one", <<>>, "read"))
    /\ pc' = "menu"
    /\ UNCHANGED <<db_contacts, opt, _id, age, phone, email, field, value,
                   pre, entered, inserted, removed, answer, live>>

\* show_all()
ShowAll ==
    /\ pc = "show_all"
    /\ IF count_documents(db_contacts) = 0
       THEN /\ printed' = {NoDataMsg}
            /\ shown' = <<>>
            /\ calls' = <<Call("count_documents", <<>>, "read")>>
       ELSE /\ \E s \in find(db_contacts) : shown' = s
            /\ calls' = <<Call("count_documents", <<>>, "read"), Call("find", <<>>, "read")>>
            /\ UNCHANGED printed
    /\ pc' = "menu"
    /\ UNCHANGED <<db_contacts, opt, _id, name, age, phone, email, contact, field, value,
                   typed, pre, entered, inserted, removed, answer, live>>

\* update(): the name prompt and the lookup
UpdateName(t) ==
    /\ pc = "update_name"
    /\ name' = lower(t)
    /\ typed' = t
    /\ \E c \in find_one(db_contacts, NAME_KEY, lower(t)) :
          /\ contact' = c
          /\ shown' = IF c # {} THEN <<CHOOSE d \in c : TRUE>> ELSE <<>>
          /\ printed' = IF c # {} THEN {} ELSE {NotFoundMsg}
          /\ pc' = IF c # {} THEN "update_field" ELSE "menu"
    /\ calls' = Append(calls, Call("find_one", <<>>, "read"))
    /\ UNCHANGED <<db_contacts, opt, _id, age, phone, email, field, value,
                   pre, entered, inserted, removed, answer, live>>

\* update(): one turn of the field-selection loop
UpdateField(t) ==
    /\ pc = "update_field"
    /\ LET f == strip(lower(t))
       IN IF IsIdField(f)
          THEN /\ field' = f
               /\ printed' = printed \cup {ImmutableMsg}
               /\ UNCHANGED pc
          ELSE IF FieldAlias(f) \notin UpdatableFields
          THEN /\ field' = FieldAlias(f)
               /\ printed' = printed \cup {NoFieldMsg}
               /\ UNCHANGED pc
          ELSE /\ field' = FieldAlias(f)
               /\ pc' = "update_value"
               /\ UNCHANGED printed
    /\ UNCHANGED <<db_contacts, opt, _id, name, age, phone, email, contact, value,
                   shown, calls, typed, pre, entered, inserted, removed, answer, live>>

\* update(): one turn of the value loop and, when the loop breaks, update_one and the
\* report of its outcome.  value keeps the text; update_one is given int(value).
UpdateValue(t, ack) ==
    /\ pc = "update_value"
    /\ value' = lower(t)
    /\ IF field \in IntFields
       THEN IF IsInt(lower(t))
            THEN /\ db_contacts' =
                        update_one(db_contacts, TheContact[ID_KEY], field, int(lower(t)))
                 /\ calls' = Append(calls, Call("update_one", field, Ack(ack)))
                 /\ printed' = printed \cup {IF ack THEN UpdatedMsg ELSE NotAcknowledgedMsg}
                 /\ pc' = "menu"
            ELSE /\ printed' = printed \cup {AgeNumberMsg}
                 /\ UNCHANGED <<db_contacts, calls, pc>>
       ELSE UNCHANGED <<db_contacts, calls, printed, pc>>
    /\ UNCHANGED <<opt, _id, name, age, phone, email, contact, field,
                   shown, typed, pre, entered, inserted, removed, answer, live>>

\* delete(): the name prompt and the lookup
DeleteName(t) ==
    /\ pc = "delete_name"
    /\ name' = t
    /\ typed' = t
    /\ \E c \in find_one(db_contacts, NAME_KEY, t) :
          /\ contact' = c
          /\ shown' = IF c # {} THEN <<CHOOSE d \in c : TRUE>> ELSE <<>>
          /\ printed' = IF c # {} THEN {} ELSE {NotFoundMsg}
          /\ pc' = IF c # {} THEN "delete_confirm" ELSE "menu"
    /\ calls' = Append(calls, Call("find_one", <<>>, "read"))
    /\ UNCHANGED <<db_contacts, opt, _id, age, phone, email, field, value,
                   pre, entered, inserted, removed, answer, live>>

\* delete(): the confirmation prompt and delete_one, whose result is not looked at
DeleteConfirm(t, ack) ==
    /\ pc = "delete_confirm"
    /\ IF lower(t) \in ConfirmAnswers
       THEN /\ db_contacts' = delete_one(db_contacts, TheContact[ID_KEY])
            /\ calls' = Append(calls, Call("delete_one", <<>>, Ack(ack)))
            /\ printed' = printed \cup {DeletedMsg}
            /\ removed' = contact
            /\ live' = live \ {TheContact[ID_KEY]}
       ELSE UNCHANGED <<db_contacts, calls, printed, removed, live>>
    /\ answer' = t
    /\ pc' = "menu"
    /\ UNCHANGED <<opt, _id, name, age, phone, email, contact, field, value,
                   shown, typed, pre, entered, inserted>>

Next ==
    \/ \E t \in MenuInputs : Menu(t)
    \/ \E t \in IdInputs : CreateId(t)
    \/ \E t \in NameInputs : CreateName(t)
    \/ \E t \in AgeInputs : CreateAge(t)
    \/ \E t \in PhoneInputs : CreatePhone(t)
    \/ \E t \in EmailInputs, ack \in BOOLEAN : CreateEmail(t, ack)
    \/ \E t \in NameInputs : SearchOne(t)
    \/ ShowAll
    \/ \E t \in NameInputs : UpdateName(t)
    \/ \E t \in FieldInputs : UpdateField(t)
    \/ \E t \in ValueInputs, ack \in BOOLEAN : UpdateValue(t, ack)
    \/ \E t \in NameInputs : DeleteName(t)
    \/ \E t \in ConfirmInputs, ack \in BOOLEAN : DeleteConfirm(t, ack)

Spec == Init /\ [][Next]_vars

----------------------------------------------------------------------------
(* Properties *)

LastCall == calls[Len(calls)]

\* The operation chosen at the last menu prompt has reached the collection and returned.
Returned(o) == pc = "menu" /\ opt = o /\ calls # <<>>

SameName(n) == {d \in db_contacts : d[NAME_KEY] = n}

\* C1: in update(), once a field is chosen, the value prompt is repeated only when the
\* field is age and the value typed is not an integer; for name, phone and email the
\* first value typed is accepted and the flow goes on to its one update_one.
C1_ValuePromptRepeatsOnlyForBadAge ==
    [][(pc = "update_value" /\ pc' = "update_value")
          => (field = AGE_KEY /\ ~IsInt(value'))]_vars

\* C2: an update changes only the chosen field of the one contact found: its other
\* fields, the id among them, and every other document are as before the update.
C2_UpdateChangesOnlyTheField ==
    (Returned(UPDATE_OPT) /\ LastCall.op = "update_one") =>
        /\ TheContact \in pre
        /\ Cardinality(db_contacts) = Cardinality(pre)
        /\ \A d \in pre : d[ID_KEY] # TheContact[ID_KEY] => d \in db_contacts
        /\ \E u \in db_contacts :
              /\ u[ID_KEY] = TheContact[ID_KEY]
              /\ DOMAIN u = DOMAIN TheContact
              /\ \A k \in DOMAIN u \ {field} : u[k] = TheContact[k]

C2_Witness ==
    /\ Returned(UPDATE_OPT) /\ LastCall.op = "update_one"
    /\ Cardinality(db_contacts) = 2
    /\ db_contacts # pre

\* C3: search, update and delete alike look the name up lower-cased, so a stored
\* contact is found by each of them whatever the letter case of the name typed.
C3_LookupLowerCasesTheName ==
    (calls # <<>> /\ calls[1].op = "find_one" /\ \E d \in pre : d[NAME_KEY] = lower(typed)) =>
        contact # {}

\* C4 as claimed: a search right after a successful insert returns the contact just
\* entered, name and email lower-cased, id, age and phone exactly as entered.
C4_FoundEqualsEnteredPhoneAsTyped ==
    (Returned(SEARCH_OPT) /\ inserted /\ name = lower(entered.name)) =>
        contact = {Document(entered.id, lower(entered.name), entered.age,
                            entered.phone, lower(entered.email))}

\* C4 as amended: a search right after a successful insert returns a contact of that
\* lower-cased name; when no other contact has the name, it is the one just entered,
\* with name, phone and email lower-cased and id and age as entered.
C4_FoundEqualsEnteredLowerCased ==
    (Returned(SEARCH_OPT) /\ inserted /\ name = lower(entered.name)) =>
        /\ contact # {}
        /\ TheContact[NAME_KEY] = lower(entered.name)
        /\ Cardinality(SameName(name)) = 1 =>
              contact = {Document(entered.id, lower(entered.name), entered.age,
                                  lower(entered.phone), lower(entered.email))}

C4_Witness ==
    /\ Returned(SEARCH_OPT) /\ inserted /\ name = lower(entered.name)
    /\ typed # name
    /\ Cardinality(db_contacts) = 2
    /\ Cardinality(SameName(name)) = 1
    /\ entered.phone # lower(entered.phone)

\* C5: inserting a contact whose id is already in the collection raises
\* DuplicateKeyError, which is reported; insert_one is not called again, the collection
\* is as it was, holding the first contact of that id, and the menu is back.
C5_DuplicateIdLeavesTheStore ==
    (opt = CREATE_OPT /\ calls # <<>> /\ \E d \in pre : d[ID_KEY] = _id) =>
        /\ calls = <<Call("insert_one", <<>>, "DuplicateKeyError")>>
        /\ db_contacts = pre
        /\ DuplicateMsg \in printed
        /\ CreatedMsg \notin printed
        /\ pc = "menu"

C5_Witness ==
    /\ opt = CREATE_OPT /\ calls # <<>>
    /\ \E d \in pre : d[ID_KEY] = _id /\ d[NAME_KEY] # name
    /\ pc = "menu"

\* C6 as claimed: when the user selects the field id, no call to the collection, read
\* or write, has been made, and no write ever sets the id.
C6_NoCallBeforeIdRejected ==
    /\ (pc = "update_field" /\ field = <<"i", "d">>) => calls = <<>>
    /\ \A i \in 1..Len(calls) : calls[i].op = "update_one" => calls[i].set # ID_KEY

\* C6 as amended: when the user selects the field id it is rejected and the field is
\* asked again; the one call made by then is the lookup by name, a read, and the
\* collection is as it was; no write ever sets the id.
C6_NoWriteBeforeIdRejected ==
    /\ field = <<"i", "d">> =>
          /\ pc = "update_field"
          /\ ImmutableMsg \in printed
          /\ calls = <<Call("find_one", <<>>, "read")>>
          /\ db_contacts = pre
    /\ \A i \in 1..Len(calls) : calls[i].op = "update_one" => calls[i].set # ID_KEY

C6_Witness == pc = "update_field" /\ field = <<"i", "d">> /\ typed # name

\* C7 as claimed: after a confirmed delete, a search for the deleted contact's name
\* finds nothing, also when other contacts have that name.
C7_DeletedNameNotFound ==
    (Returned(SEARCH_OPT) /\ removed # {} /\ \A d \in removed : d[NAME_KEY] = name) =>
        contact = {}

\* C7 as amended: after a confirmed delete, a search for the deleted contact's name
\* never returns the deleted contact; it finds nothing exactly when no remaining
\* contact has that name.
C7_DeletedContactNotFound ==
    (Returned(SEARCH_OPT) /\ removed # {} /\ \A d \in removed : d[NAME_KEY] = name) =>
        /\ \A c \in contact, d \in removed : c[ID_KEY] # d[ID_KEY]
        /\ contact = {} <=> SameName(name) = {}

C7_Witness ==
    /\ Returned(SEARCH_OPT) /\ removed # {} /\ \A d \in removed : d[NAME_KEY] = name
    /\ contact = {}
    /\ db_contacts # {}

\* C8: delete() changes the collection only when the lookup found a contact and the
\* answer, lower-cased, is y or yes; then the one contact displayed is removed and the
\* others stay; otherwise the collection is as it was.
C8_DeleteOnlyWhenConfirmed ==
    /\ (opt = DELETE_OPT /\ pc \in {"delete_name", "delete_confirm"}) => db_contacts = pre
    /\ Returned(DELETE_OPT) =>
          IF contact # {} /\ lower(answer) \in {<<"y">>, <<"y", "e", "s">>}
          THEN /\ shown = <<TheContact>>
               /\ TheContact \in pre
               /\ db_contacts = pre \ {TheContact}
               /\ LastCall = Call("delete_one", <<>>, LastCall.result)
          ELSE db_contacts = pre /\ LastCall.op = "find_one"

C8_Witness ==
    /\ Returned(DELETE_OPT)
    /\ answer = <<"Y", "E", "S">>
    /\ Cardinality(pre) = 2
    /\ Cardinality(db_contacts) = 1

\* C9: for every write issued, insert, update and delete, an unacknowledged outcome is
\* reported by the not-acknowledged message and no success message is shown for it.
C9_UnacknowledgedWriteReported ==
    \A i \in 1..Len(calls) :
        calls[i].result = "unacknowledged" =>
            /\ NotAcknowledgedMsg \in printed
            /\ printed \cap {CreatedMsg, UpdatedMsg, DeletedMsg} = {}

\* C10: show_all() on an empty collection reports "No data found." and prints no
\* contact; otherwise it prints each contact inserted and not deleted since exactly
\* once, and nothing else.
C10_ShowAllYieldsTheLiveContacts ==
    Returned(SHOW_ALL_OPT) =>
        IF live = {}
        THEN printed = {NoDataMsg} /\ shown = <<>> /\ LastCall.op = "count_documents"
        ELSE /\ NoDataMsg \notin printed
             /\ Len(shown) = Cardinality(live)
             /\ {shown[i][ID_KEY] : i \in 1..Len(shown)} = live
             /\ {shown[i] : i \in 1..Len(shown)} = db_contacts

C10_Witness ==
    /\ Returned(SHOW_ALL_OPT)
    /\ Len(shown) = 2
    /\ shown[1][ID_KEY] > shown[2][ID_KEY]

====
